---- MODULE Spec2Model ----
(***************************************************************************)
(* Model of secret-ballot-bot (src/src/main.rs): the shared poll map, the  *)
(* command counter, and the event handlers that run concurrently on them.  *)
(* Every DashMap operation (entry, get, remove, and_modify) is one atomic  *)
(* step; a handler is a sequence of such steps followed by its reply.      *)
(***************************************************************************)
EXTENDS Integers, Sequences, FiniteSets, TLC

(* ---------------------------------------------------------------- bounds *)
\* number of gateway events delivered in one behaviour
MaxEvents == 4
\* longest id / option of the token specification, in pieces of Pieces
MaxPieces == 2

(* ------------------------------------------------------------- constants *)
\* const OPTION_SEPARATOR
OPTION_SEPARATOR == <<"|">>
\* const ID_SEPARATOR = "<id:option>", as a sequence of characters
ID_SEPARATOR == <<"<", "i", "d", ":", "o", "p", "t", "i", "o", "n", ">">>

Users == {"u1", "u2"}
\* the slots handlers run in: two handlers can be in flight at one time
TaskIds == {1, 2}

\* poll ids users type into the commands: two plain ids
PollIds == {<<"p">>, <<"q">>}
\* option strings of the polls
Options == {<<"A">>, <<"B">>}

\* the "options" argument of poll-new: the options joined by the separator
OptionStrings == {<<"A", "|", "B">>}

\* names of the slash commands the gateway can deliver; "ping" is not in
\* the match of handle_application_command
CommandNames == {"poll-new", "poll-results", "poll-close", "poll-delete", "ping"}

\* Option<T>: None is <<>>, Some(x) is <<x>>
None == <<>>
Some(x) == <<x>>
IsSome(o) == o # <<>>
Unwrap(o) == o[1]

(* ------------------------------------------------------- pure functions *)
\* format!("{}{}{}", id, ID_SEPARATOR, option): the custom_id of a button
create_poll_button(id, option) == id \o ID_SEPARATOR \o option

\* positions at which pat occurs in s
Occurrences(s, pat) ==
    {i \in 1..(Len(s) - Len(pat) + 1) : SubSeq(s, i, i + Len(pat) - 1) = pat}

Contains(s, pat) == Occurrences(s, pat) # {}

MinOf(S) == CHOOSE x \in S : \A y \in S : x <= y
MaxOf(S) == CHOOSE x \in S : \A y \in S : y <= x

\* position splitn cuts at: the last occurrence (what rsplitn would do)
SplitPointLast(s, pat) == MaxOf(Occurrences(s, pat))
\* position splitn cuts at: the first occurrence of the pattern
SplitPoint(s, pat) == MinOf(Occurrences(s, pat))

\* response.splitn(2, ID_SEPARATOR) collected: one or two parts
splitn2(s, pat) ==
    IF Contains(s, pat)
    THEN LET i == SplitPoint(s, pat)
         IN  <<SubSeq(s, 1, i - 1), SubSeq(s, i + Len(pat), Len(s))>>
    ELSE <<s>>

\* string.split(OPTION_SEPARATOR) collected: the parts between the
\* occurrences of the pattern, one part when there is none
RECURSIVE split(_, _)
split(s, pat) ==
    IF Contains(s, pat)
    THEN LET i == MinOf(Occurrences(s, pat))
         IN  <<SubSeq(s, 1, i - 1)>> \o split(SubSeq(s, i + Len(pat), Len(s)), pat)
    ELSE <<s>>

\* the two splitter.next().unwrap() calls: the second one panics when the
\* separator is absent.  None stands for the panic.
decode_custom_id(response) ==
    LET parts == splitn2(response, ID_SEPARATOR)
    IN  IF Len(parts) = 2 THEN Some(<<parts[1], parts[2]>>) ELSE None

(* DashMap<User, String> as its set of entries <<user, option>> *)
\* insert without looking for an entry of the same key
DashInsertAppend(responses, k, v) == responses \cup {<<k, v>>}
\* DashMap::insert: the entry of key k is replaced
DashInsert(responses, k, v) == {e \in responses : e[1] # k} \cup {<<k, v>>}

\* DashMap::len
DashLen(responses) == Cardinality(responses)

\* counts.entry(v).or_insert(0) = 1: the count is set, not incremented
BumpSet(counts, v) ==
    IF v \in DOMAIN counts THEN [counts EXCEPT ![v] = 1] ELSE counts @@ (v :> 1)
\* *counts.entry(v).or_insert(0) += 1
Bump(counts, v) ==
    IF v \in DOMAIN counts THEN [counts EXCEPT ![v] = @ + 1] ELSE counts @@ (v :> 1)

EmptyMap == [x \in {} |-> 0]

\* the loop over poll.responses.iter() that builds counts
RECURSIVE CountLoop(_, _)
CountLoop(entries, counts) ==
    IF entries = {} THEN counts
    ELSE LET kv == CHOOSE e \in entries : TRUE
         IN  CountLoop(entries \ {kv}, Bump(counts, kv[2]))

Tally(responses) == CountLoop(responses, EmptyMap)

\* user == &poll.owner, always true
IsOwnerAlways(user, owner) == TRUE
\* user == &poll.owner
IsOwner(user, owner) == user = owner

(* ---------------------------------------------------------------- state *)
VARIABLES
    polls,      \* PollData: poll id -> Poll, DOMAIN = the ids that have a record
    counter,    \* CommandCounter: command name -> count
    tasks,      \* the handler running in each task slot
    events,     \* number of events delivered so far
    created_options, \* history: poll id -> the options its record was created with
    button      \* token specification: the button under test and its decoding

vars == <<polls, counter, tasks, events, created_options, button>>

Idle ==
    [pc |-> "idle", name |-> "", user |-> "", poll_id |-> None,
     poll_options |-> None, poll_option |-> None, owner |-> None, poll |-> None, report |-> None,
     dm |-> None, count |-> None, message |-> None, content |-> <<>>]

NoButton == [id |-> <<>>, option |-> <<>>, custom_id |-> <<>>, decoded |-> None, pc |-> "off"]

\* slot t runs no handler: none was started in it, or the one started in
\* it panicked, or it returned after logging the failure of its reply
Free(t) == tasks[t].pc \in {"idle", "panicked", "logged"}

Init ==
    /\ polls = EmptyMap
    /\ counter = EmptyMap
    /\ tasks = [t \in TaskIds |-> Idle]
    /\ events = 0
    /\ created_options = EmptyMap
    /\ button = NoButton

\* an event can be delivered to slot t: the slot runs no handler
CanDeliver(t) == Free(t) /\ events < MaxEvents

\* custom ids a click can carry: the buttons of the polls, and a token
\* without separator
CustomIds ==
    {create_poll_button(id, o) : id \in PollIds, o \in Options} \cup {<<"p">>}

\* counter.insert(command, 1) instead of the entry that is incremented
increment_insert(c, command) ==
    [k \in DOMAIN c \cup {command} |-> IF k = command THEN 1 ELSE c[k]]

\* increment_command: counter.entry(command).or_insert(0), then += 1
increment_command(c, command) ==
    IF command \in DOMAIN c THEN [c EXCEPT ![command] = @ + 1] ELSE c @@ (command :> 1)

\* The text of a message is the sequence of its parts; the leader of the
\* count is a part of its own.
COUNT_LEADER == "\nResponses: "

\* the "prompt" argument of poll-new
PollPrompt == <<"prompt">>

\* format!("{}{}{}", poll_prompt, COUNT_LEADER, 0), line 150
format_prompt(poll_prompt, count_string) ==
    poll_prompt \o <<COUNT_LEADER, count_string>>

\* the text of the message a click comes from: what poll-new posted
MessageContents == {format_prompt(PollPrompt, "0")}

\* handle_poll_response, lines 429-437: the text of the clicked message is
\* cut behind its last leader, or gets the leader appended when it has
\* none; then the count is appended
update_prompt(prompt, count_string) ==
    LET leaders == {i \in DOMAIN prompt : prompt[i] = COUNT_LEADER}
    IN  IF leaders # {}
        THEN SubSeq(prompt, 1, MaxOf(leaders)) \o <<count_string>>
        ELSE prompt \o <<COUNT_LEADER, count_string>>

\* map_or("?", |x| x.to_string()), line 427
CountString(count) == IF IsSome(count) THEN ToString(Unwrap(count)) ELSE "?"

(* -------------------------------------------------------------- actions *)
\* handle_application_command whose match has no arm for the other names:
\* nothing is replied to them
ApplicationCommandSilent(t, command_name, user, id, options) ==
    /\ CanDeliver(t)
    /\ events' = events + 1
    /\ counter' = increment_command(counter, command_name)
    /\ tasks' = [tasks EXCEPT ![t] =
         CASE command_name = "poll-new" ->
                [Idle EXCEPT !.pc = "new_entry", !.name = command_name,
                             !.user = user, !.poll_id = Some(id),
                             !.poll_options = Some(split(options, OPTION_SEPARATOR))]
           [] command_name = "poll-results" ->
                [Idle EXCEPT !.pc = "results_get", !.name = command_name,
                             !.user = user, !.poll_id = Some(id)]
           [] command_name = "poll-close" ->
                [Idle EXCEPT !.pc = "close_get", !.name = command_name,
                             !.user = user, !.poll_id = Some(id)]
           [] command_name = "poll-delete" ->
                [Idle EXCEPT !.pc = "delete_get", !.name = command_name,
                             !.user = user, !.poll_id = Some(id)]
           [] OTHER ->
                [Idle EXCEPT !.pc = "reply", !.name = command_name,
                             !.user = user, !.content = <<>>]]
    /\ UNCHANGED <<polls, created_options, button>>

\* handle_application_command up to the match: the counter is incremented,
\* then the command is routed by name.  The unmatched names run
\* handle_default, which only replies.
ApplicationCommand(t, command_name, user, id, options) ==
    /\ CanDeliver(t)
    /\ events' = events + 1
    /\ counter' = increment_command(counter, command_name)
    /\ tasks' = [tasks EXCEPT ![t] =
         CASE command_name = "poll-new" ->
                [Idle EXCEPT !.pc = "new_entry", !.name = command_name,
                             !.user = user, !.poll_id = Some(id),
                             !.poll_options = Some(split(options, OPTION_SEPARATOR))]
           [] command_name = "poll-results" ->
                [Idle EXCEPT !.pc = "results_get", !.name = command_name,
                             !.user = user, !.poll_id = Some(id)]
           [] command_name = "poll-close" ->
                [Idle EXCEPT !.pc = "close_get", !.name = command_name,
                             !.user = user, !.poll_id = Some(id)]
           [] command_name = "poll-delete" ->
                [Idle EXCEPT !.pc = "delete_get", !.name = command_name,
                             !.user = user, !.poll_id = Some(id)]
           [] OTHER ->
                [Idle EXCEPT !.pc = "reply", !.name = command_name,
                             !.user = user, !.content = <<"Unimplmented command">>]]
    /\ UNCHANGED <<polls, created_options, button>>

\* handle_poll_new with a blind insert: an existing record is overwritten
PollNewInsert(t) ==
    LET id == Unwrap(tasks[t].poll_id) IN
    /\ tasks[t].pc = "new_entry"
    /\ polls' = [k \in DOMAIN polls \cup {id} |->
                   IF k = id THEN [owner |-> tasks[t].user, responses |-> {},
                                   open |-> TRUE]
                   ELSE polls[k]]
    /\ created_options' = [k \in DOMAIN polls \cup {id} |->
                   IF k = id THEN Unwrap(tasks[t].poll_options)
                   ELSE created_options[k]]
    /\ tasks' = [tasks EXCEPT ![t].pc = "reply",
                    ![t].content = format_prompt(PollPrompt, "0")]
    /\ UNCHANGED <<counter, events, button>>

\* handle_poll_new, lines 126-169: poll_map.entry(poll_id), insert if vacant
PollNewEntry(t) ==
    LET id == Unwrap(tasks[t].poll_id) IN
    /\ tasks[t].pc = "new_entry"
    /\ IF id \in DOMAIN polls
       THEN /\ polls' = polls
            /\ created_options' = created_options
            /\ tasks' = [tasks EXCEPT ![t].pc = "reply",
                            ![t].content = <<"Poll with that id already exists.">>]
       ELSE /\ polls' = polls @@ (id :> [owner |-> tasks[t].user,
                                         responses |-> {},
                                         open |-> TRUE])
            /\ created_options' =
                 created_options @@ (id :> Unwrap(tasks[t].poll_options))
            /\ tasks' = [tasks EXCEPT ![t].pc = "reply",
                            ![t].content = format_prompt(PollPrompt, "0")]
    /\ UNCHANGED <<counter, events, button>>

\* handle_poll_results, lines 190-215: the record is cloned under the lock
\* of its shard, counts and report are built from the clone, and the
\* requester is compared with the owner in the clone
PollResultsGet(t) ==
    LET id == Unwrap(tasks[t].poll_id) IN
    /\ tasks[t].pc = "results_get"
    /\ IF id \in DOMAIN polls
       THEN LET poll == polls[id]
                report == [poll_id |-> id, counts |-> Tally(poll.responses)]
            IN  IF IsOwner(tasks[t].user, poll.owner)
                THEN tasks' = [tasks EXCEPT ![t].pc = "results_dm",
                                  ![t].poll = Some(poll),
                                  ![t].report = Some(report)]
                ELSE tasks' = [tasks EXCEPT ![t].pc = "reply",
                                  ![t].poll = Some(poll),
                                  ![t].report = Some(report),
                                  ![t].content = <<"Not an owner of this poll.">>]
       ELSE tasks' = [tasks EXCEPT ![t].pc = "reply",
                         ![t].content = <<"No poll with that ID.">>]
    /\ UNCHANGED <<polls, counter, events, created_options, button>>

\* handle_poll_results, line 216: poll.owner.create_dm_channel; on Err the
\* failure is printed and the reply is the failure text
PollResultsCreateDm(t) ==
    /\ tasks[t].pc = "results_dm"
    /\ \E created \in BOOLEAN :
         IF created
         THEN tasks' = [tasks EXCEPT ![t].pc = "results_send"]
         ELSE tasks' = [tasks EXCEPT ![t].pc = "reply",
                           ![t].content = <<"Failed to send results...">>]
    /\ UNCHANGED <<polls, counter, events, created_options, button>>

\* handle_poll_results, lines 217-231: channel.send_message with the
\* report, on the channel to poll.owner of the clone; it can fail too
PollResultsSend(t) ==
    /\ tasks[t].pc = "results_send"
    /\ \E sent \in BOOLEAN :
         IF sent
         THEN tasks' = [tasks EXCEPT ![t].pc = "reply",
                           ![t].dm = Some([to |-> Unwrap(tasks[t].poll).owner,
                                           report |-> Unwrap(tasks[t].report)]),
                           ![t].content = <<"Results sent by direct message.">>]
         ELSE tasks' = [tasks EXCEPT ![t].pc = "reply",
                           ![t].content = <<"Failed to send results...">>]
    /\ UNCHANGED <<polls, counter, events, created_options, button>>

\* handle_poll_close, lines 276-284 and 294-299: the owner is read with
\* poll_map.get and compared with the requester
PollCloseGet(t) ==
    LET id == Unwrap(tasks[t].poll_id) IN
    /\ tasks[t].pc = "close_get"
    /\ IF id \in DOMAIN polls
       THEN IF IsOwner(tasks[t].user, polls[id].owner)
            THEN tasks' = [tasks EXCEPT ![t].pc = "close_modify",
                              ![t].owner = Some(polls[id].owner)]
            ELSE tasks' = [tasks EXCEPT ![t].pc = "reply",
                              ![t].owner = Some(polls[id].owner),
                              ![t].content = <<"Not an owner of this poll.">>]
       ELSE tasks' = [tasks EXCEPT ![t].pc = "reply",
                         ![t].content = <<"No poll with that ID.">>]
    /\ UNCHANGED <<polls, counter, events, created_options, button>>

\* poll.open = !poll.open instead of poll.open = false
PollCloseToggle(t) ==
    LET id == Unwrap(tasks[t].poll_id) IN
    /\ tasks[t].pc = "close_modify"
    /\ polls' = IF id \in DOMAIN polls
                THEN [polls EXCEPT ![id].open = ~@]
                ELSE polls
    /\ tasks' = [tasks EXCEPT ![t].pc = "reply", ![t].content = <<"Poll closed.">>]
    /\ UNCHANGED <<counter, events, created_options, button>>

\* handle_poll_close, lines 285-293: entry(poll_id).and_modify(open = false)
\* on whatever record the id has now; the entry is dropped, not inserted
PollCloseModify(t) ==
    LET id == Unwrap(tasks[t].poll_id) IN
    /\ tasks[t].pc = "close_modify"
    /\ polls' = IF id \in DOMAIN polls
                THEN [polls EXCEPT ![id].open = FALSE]
                ELSE polls
    /\ tasks' = [tasks EXCEPT ![t].pc = "reply", ![t].content = <<"Poll closed.">>]
    /\ UNCHANGED <<counter, events, created_options, button>>

\* handle_poll_delete, lines 333-341 and 349-354
PollDeleteGet(t) ==
    LET id == Unwrap(tasks[t].poll_id) IN
    /\ tasks[t].pc = "delete_get"
    /\ IF id \in DOMAIN polls
       THEN IF IsOwner(tasks[t].user, polls[id].owner)
            THEN tasks' = [tasks EXCEPT ![t].pc = "delete_remove",
                              ![t].owner = Some(polls[id].owner)]
            ELSE tasks' = [tasks EXCEPT ![t].pc = "reply",
                              ![t].owner = Some(polls[id].owner),
                              ![t].content = <<"Not an owner of this poll.">>]
       ELSE tasks' = [tasks EXCEPT ![t].pc = "reply",
                         ![t].content = <<"No poll with that ID.">>]
    /\ UNCHANGED <<polls, counter, events, created_options, button>>

\* handle_poll_delete, lines 342-348: poll_map.remove(poll_id) on whatever
\* record the id has now
PollDeleteRemove(t) ==
    LET id == Unwrap(tasks[t].poll_id) IN
    /\ tasks[t].pc = "delete_remove"
    /\ polls' = [k \in DOMAIN polls \ {id} |-> polls[k]]
    /\ created_options' = [k \in DOMAIN polls \ {id} |-> created_options[k]]
    /\ tasks' = [tasks EXCEPT ![t].pc = "reply", ![t].content = <<"Poll deleted.">>]
    /\ UNCHANGED <<counter, events, button>>

\* handle_message_component and handle_poll_response, lines 398-406: the
\* custom id of the clicked button is split into poll id and option; a
\* custom id without separator panics the task at the second unwrap
MessageComponent(t, user, custom_id, message_content) ==
    LET decoded == decode_custom_id(custom_id) IN
    /\ CanDeliver(t)
    /\ events' = events + 1
    /\ tasks' = [tasks EXCEPT ![t] =
         IF IsSome(decoded)
         THEN [Idle EXCEPT !.pc = "response_modify", !.name = "click",
                           !.user = user,
                           !.message = Some(message_content),
                           !.poll_id = Some(Unwrap(decoded)[1]),
                           !.poll_option = Some(Unwrap(decoded)[2])]
         ELSE [Idle EXCEPT !.pc = "panicked", !.name = "click", !.user = user]]
    /\ UNCHANGED <<polls, counter, created_options, button>>

\* the closure of and_modify with a fresh map for the response: the
\* responses of the other users are dropped
VoteClear(poll, user, poll_option) ==
    IF poll.open
    THEN [poll EXCEPT !.responses = {<<user, poll_option>>}]
    ELSE poll
\* the closure of and_modify without the test of poll.open
VoteAlways(poll, user, poll_option) ==
    [poll EXCEPT !.responses = DashInsert(@, user, poll_option)]
\* the closure of and_modify, lines 415-419
Vote(poll, user, poll_option) ==
    IF poll.open
    THEN [poll EXCEPT !.responses = DashInsert(@, user, poll_option)]
    ELSE poll

\* handle_poll_response with entry(poll_id).or_insert_with(..) before the
\* closure: a click on an id without record creates one
PollResponseOrInsert(t) ==
    LET id == Unwrap(tasks[t].poll_id)
        old == IF id \in DOMAIN polls THEN polls[id]
               ELSE [owner |-> tasks[t].user, responses |-> {}, open |-> TRUE]
        poll == Vote(old, tasks[t].user, Unwrap(tasks[t].poll_option))
        count == Some(DashLen(poll.responses))
    IN  /\ tasks[t].pc = "response_modify"
        /\ polls' = [k \in DOMAIN polls \cup {id} |->
                       IF k = id THEN poll ELSE polls[k]]
        /\ created_options' = [k \in DOMAIN polls \cup {id} |->
                       IF k \in DOMAIN polls THEN created_options[k] ELSE <<>>]
        /\ tasks' = [tasks EXCEPT ![t].pc = "reply",
                        ![t].count = count,
                        ![t].content = update_prompt(Unwrap(tasks[t].message),
                                                            CountString(count))]
        /\ UNCHANGED <<counter, events, button>>

\* handle_poll_response, lines 408-424: entry(poll_id).and_modify(closure),
\* then the number of responses of the occupied entry, all under the lock
\* of the entry
PollResponseModify(t) ==
    LET id == Unwrap(tasks[t].poll_id) IN
    /\ tasks[t].pc = "response_modify"
    /\ IF id \in DOMAIN polls
       THEN LET poll == Vote(polls[id], tasks[t].user, Unwrap(tasks[t].poll_option))
                count == Some(DashLen(poll.responses))
            IN  /\ polls' = [polls EXCEPT ![id] = poll]
                /\ tasks' = [tasks EXCEPT ![t].pc = "reply",
                                ![t].count = count,
                                ![t].content = update_prompt(Unwrap(tasks[t].message),
                                                            CountString(count))]
       ELSE /\ polls' = polls
            /\ tasks' = [tasks EXCEPT ![t].pc = "reply",
                            ![t].content = update_prompt(Unwrap(tasks[t].message),
                                                        CountString(None))]
    /\ UNCHANGED <<counter, events, created_options, button>>

\* create_interaction_response at the end of every handler: the content is
\* sent and the task ends, whether or not the call succeeds
Respond(t) ==
    /\ tasks[t].pc = "reply"
    /\ tasks' = [tasks EXCEPT ![t] = Idle]
    /\ UNCHANGED <<polls, counter, events, created_options, button>>

Next ==
    \/ \E t \in TaskIds, user \in Users, id \in PollIds, options \in OptionStrings :
         ApplicationCommand(t, "poll-new", user, id, options)
    \/ \E t \in TaskIds, user \in Users, id \in PollIds :
         \E command_name \in CommandNames \ {"poll-new", "ping"} :
           ApplicationCommand(t, command_name, user, id, <<>>)
    \/ \E t \in TaskIds, user \in Users :
         ApplicationCommand(t, "ping", user, <<>>, <<>>)
    \/ \E t \in TaskIds, user \in Users, custom_id \in CustomIds :
         \E message_content \in MessageContents :
           MessageComponent(t, user, custom_id, message_content)
    \/ \E t \in TaskIds : PollNewEntry(t)
    \/ \E t \in TaskIds : PollResultsGet(t)
    \/ \E t \in TaskIds : PollResultsCreateDm(t)
    \/ \E t \in TaskIds : PollResultsSend(t)
    \/ \E t \in TaskIds : PollCloseGet(t)
    \/ \E t \in TaskIds : PollCloseModify(t)
    \/ \E t \in TaskIds : PollDeleteGet(t)
    \/ \E t \in TaskIds : PollDeleteRemove(t)
    \/ \E t \in TaskIds : PollResponseModify(t)
    \/ \E t \in TaskIds : Respond(t)

Spec == Init /\ [][Next]_vars

(* ------------------------------------------------- token specification *)
\* pieces the ids and options of the token specification are made of: a
\* plain character, the ends of the separator, the separator, and the two
\* halves of the separator
Pieces ==
    {<<"a">>, <<"<">>, <<">">>, ID_SEPARATOR,
     SubSeq(ID_SEPARATOR, 1, 4), SubSeq(ID_SEPARATOR, 5, 11)}

RECURSIVE Flatten(_)
Flatten(seq) == IF seq = <<>> THEN <<>> ELSE Head(seq) \o Flatten(Tail(seq))

\* the strings of at most MaxPieces pieces
Strings == UNION {{Flatten(seq) : seq \in [1..n -> Pieces]} : n \in 0..MaxPieces}

InitToken ==
    /\ polls = EmptyMap
    /\ counter = EmptyMap
    /\ tasks = [t \in TaskIds |-> Idle]
    /\ events = 0
    /\ created_options = EmptyMap
    /\ \E id \in Strings, option \in Strings :
         button = [NoButton EXCEPT !.id = id, !.option = option, !.pc = "create"]

\* create_poll_button(id, option) sets the custom id of the button
ButtonCreate ==
    /\ button.pc = "create"
    /\ button' = [button EXCEPT !.custom_id = create_poll_button(button.id, button.option),
                                !.pc = "click"]
    /\ UNCHANGED <<polls, counter, tasks, events, created_options>>

\* the click on the button: handle_poll_response splits its custom id
ButtonDecode ==
    /\ button.pc = "click"
    /\ button' = [button EXCEPT !.decoded = decode_custom_id(button.custom_id),
                                !.pc = "decoded"]
    /\ UNCHANGED <<polls, counter, tasks, events, created_options>>

NextToken == ButtonCreate \/ ButtonDecode

SpecToken == InitToken /\ [][NextToken]_vars

(* ---------------------------------------------------------- properties *)
\* task t takes the step that leads from pc value from to pc value to
Moves(t, from, to) == tasks[t].pc = from /\ tasks'[t].pc = to

\* the record poll-new inserts for user
NewPoll(user) == [owner |-> user, responses |-> {}, open |-> TRUE]

\* the users that have an entry in the responses of a record
Voters(poll) == {e[1] : e \in poll.responses}

\* C1: a poll-new request inserts a record (owner = its invoker, open,
\* no responses) and replies with the prompt only when its id has no
\* record at its entry step; when the id has one it replies "Poll with
\* that id already exists." and leaves the poll map unchanged.  So of the
\* poll-new requests on one id with no delete in between, exactly one wins.
C1_CreateExactlyOnce ==
    [][\A t \in TaskIds :
         Moves(t, "new_entry", "reply") =>
           LET id == Unwrap(tasks[t].poll_id) IN
           IF id \in DOMAIN polls
           THEN /\ polls' = polls
                /\ tasks'[t].content = <<"Poll with that id already exists.">>
           ELSE /\ DOMAIN polls' = DOMAIN polls \cup {id}
                /\ polls'[id] = NewPoll(tasks[t].user)
                /\ \A k \in DOMAIN polls : polls'[k] = polls[k]
                /\ tasks'[t].content = format_prompt(PollPrompt, "0")]_vars

\* two poll-new requests on one id are in flight past their entry step:
\* one won and owns the record, the other was told the id exists
C1_Witness ==
    \E t1, t2 \in TaskIds :
      /\ t1 # t2
      /\ tasks[t1].name = "poll-new" /\ tasks[t2].name = "poll-new"
      /\ tasks[t1].pc = "reply" /\ tasks[t2].pc = "reply"
      /\ tasks[t1].poll_id = tasks[t2].poll_id
      /\ tasks[t1].user # tasks[t2].user
      /\ tasks[t1].content = format_prompt(PollPrompt, "0")
      /\ tasks[t2].content = <<"Poll with that id already exists.">>
      /\ Unwrap(tasks[t1].poll_id) \in DOMAIN polls
      /\ polls[Unwrap(tasks[t1].poll_id)] = NewPoll(tasks[t1].user)

\* C2: the open flag of a record goes from true to false only in the
\* modify step of a poll-close whose requester is the owner of that record
C2_CloseOnlyByOwner ==
    [][\A id \in DOMAIN polls :
         (id \in DOMAIN polls' /\ polls[id].open /\ ~polls'[id].open) =>
           \E t \in TaskIds :
             /\ Moves(t, "close_modify", "reply")
             /\ Unwrap(tasks[t].poll_id) = id
             /\ tasks[t].user = polls[id].owner]_vars

\* C3: a record is removed only in the remove step of a poll-delete whose
\* requester is the owner of that record
C3_DeleteOnlyByOwner ==
    [][\A id \in DOMAIN polls :
         (id \notin DOMAIN polls') =>
           \E t \in TaskIds :
             /\ Moves(t, "delete_remove", "reply")
             /\ Unwrap(tasks[t].poll_id) = id
             /\ tasks[t].user = polls[id].owner]_vars

\* C4: a poll-close or poll-delete whose invoker differs from the owner it
\* reads replies "Not an owner of this poll." and none of its steps changes
\* the poll map
C4_NonOwnerNoMutation ==
    [][\A t \in TaskIds :
         /\ ( /\ tasks[t].pc \in {"close_get", "delete_get"}
              /\ tasks'[t] # tasks[t]
              /\ Unwrap(tasks[t].poll_id) \in DOMAIN polls
              /\ tasks[t].user # polls[Unwrap(tasks[t].poll_id)].owner )
            => /\ tasks'[t].pc = "reply"
               /\ tasks'[t].content = <<"Not an owner of this poll.">>
               /\ polls' = polls
         /\ ( /\ tasks[t].name \in {"poll-close", "poll-delete"}
              /\ tasks[t].content = <<"Not an owner of this poll.">>
              /\ tasks'[t] # tasks[t] )
            => /\ tasks[t].pc = "reply"
               /\ tasks'[t] = Idle
               /\ polls' = polls]_vars

\* a poll-close and a poll-delete by a user who is not the owner are both
\* about to reply, and the record is there, open, with its owner
C4_Witness ==
    \E t1, t2 \in TaskIds :
      /\ tasks[t1].name = "poll-close" /\ tasks[t2].name = "poll-delete"
      /\ tasks[t1].pc = "reply" /\ tasks[t2].pc = "reply"
      /\ tasks[t1].content = <<"Not an owner of this poll.">>
      /\ tasks[t2].content = <<"Not an owner of this poll.">>
      /\ tasks[t1].poll_id = tasks[t2].poll_id
      /\ Unwrap(tasks[t1].poll_id) \in DOMAIN polls
      /\ LET poll == polls[Unwrap(tasks[t1].poll_id)]
         IN  /\ poll.open
             /\ poll.owner # tasks[t1].user
             /\ poll.owner # tasks[t2].user
             /\ tasks[t1].owner = Some(poll.owner)

\* C5: a vote on a record whose open flag is false leaves the poll map
\* unchanged and returns the number of distinct voters of the record; and
\* no step at all changes the responses of a record that is closed
C5_ClosedPollKeepsResponses ==
    [][/\ \A t \in TaskIds :
            ( /\ Moves(t, "response_modify", "reply")
              /\ Unwrap(tasks[t].poll_id) \in DOMAIN polls
              /\ ~polls[Unwrap(tasks[t].poll_id)].open )
            => /\ polls' = polls
               /\ tasks'[t].count =
                    Some(Cardinality(Voters(polls[Unwrap(tasks[t].poll_id)])))
       /\ \A id \in DOMAIN polls :
            (~polls[id].open /\ id \in DOMAIN polls')
            => polls'[id].responses = polls[id].responses]_vars

\* a vote has run on a closed record that holds another vote: the count
\* came back, and the option the click carried is not recorded for the user
C5_Witness ==
    \E t \in TaskIds :
      /\ tasks[t].name = "click" /\ tasks[t].pc = "reply"
      /\ Unwrap(tasks[t].poll_id) \in DOMAIN polls
      /\ LET poll == polls[Unwrap(tasks[t].poll_id)]
         IN  /\ ~poll.open
             /\ poll.responses # {}
             /\ tasks[t].user \notin Voters(poll)
             /\ tasks[t].count = Some(1)

\* C6: every user has at most one response in every record; a vote on an
\* open record sets the voter's response to the new option, keeps the
\* other responses, keeps the number of distinct voters when the voter
\* had a response and raises it by one when the voter had none, and
\* returns the number of distinct voters after the upsert
C6_OneVotePerUser ==
    /\ [](\A id \in DOMAIN polls :
            \A e1, e2 \in polls[id].responses : e1[1] = e2[1] => e1 = e2)
    /\ [][\A t \in TaskIds :
            ( /\ Moves(t, "response_modify", "reply")
              /\ Unwrap(tasks[t].poll_id) \in DOMAIN polls
              /\ polls[Unwrap(tasks[t].poll_id)].open )
            => LET id == Unwrap(tasks[t].poll_id)
                   u == tasks[t].user
                   old == polls[id]
                   new == polls'[id]
               IN  /\ {e \in new.responses : e[1] = u}
                        = {<<u, Unwrap(tasks[t].poll_option)>>}
                   /\ {e \in new.responses : e[1] # u}
                        = {e \in old.responses : e[1] # u}
                   /\ Cardinality(Voters(new)) =
                        IF u \in Voters(old)
                        THEN Cardinality(Voters(old))
                        ELSE Cardinality(Voters(old)) + 1
                   /\ tasks'[t].count = Some(Cardinality(Voters(new)))]_vars

\* one user has voted two different options on one open record in two
\* clicks: each click returned the count 1 and the record holds one of them
C6_Witness ==
    \E t1, t2 \in TaskIds :
      /\ tasks[t1].name = "click" /\ tasks[t2].name = "click"
      /\ tasks[t1].pc = "reply" /\ tasks[t2].pc = "reply"
      /\ tasks[t1].user = tasks[t2].user
      /\ tasks[t1].poll_id = tasks[t2].poll_id
      /\ tasks[t1].poll_option # tasks[t2].poll_option
      /\ tasks[t1].count = Some(1) /\ tasks[t2].count = Some(1)
      /\ Unwrap(tasks[t1].poll_id) \in DOMAIN polls
      /\ LET poll == polls[Unwrap(tasks[t1].poll_id)]
         IN  /\ poll.open
             /\ poll.responses = {<<tasks[t1].user, Unwrap(tasks[t1].poll_option)>>}

\* the options held in a set of responses
Held(responses) == {e[2] : e \in responses}

\* the number of users whose response is option o
Holding(responses, o) == Cardinality({e[1] : e \in {x \in responses : x[2] = o}})

RECURSIVE SumOver(_, _)
SumOver(counts, S) ==
    IF S = {} THEN 0
    ELSE LET o == CHOOSE x \in S : TRUE IN counts[o] + SumOver(counts, S \ {o})

\* counts is the tally of responses: its keys are the options somebody
\* holds, each with the number of users holding it, summing to the number
\* of distinct voters
IsTallyOf(counts, responses) ==
    /\ DOMAIN counts = Held(responses)
    /\ \A o \in DOMAIN counts : counts[o] = Holding(responses, o) /\ counts[o] >= 1
    /\ SumOver(counts, DOMAIN counts) = Cardinality({e[1] : e \in responses})

\* C7: the tally of every record is the count by value of its responses,
\* and the report of a poll-results request is the tally of the record as
\* it was at the one step the request read it
C7_TallyCountsByValue ==
    /\ [](\A id \in DOMAIN polls :
            IsTallyOf(Tally(polls[id].responses), polls[id].responses))
    /\ [](\A t \in TaskIds :
            IsSome(tasks[t].report) =>
              /\ IsSome(tasks[t].poll)
              /\ IsTallyOf(Unwrap(tasks[t].report).counts,
                           Unwrap(tasks[t].poll).responses))
    /\ [][\A t \in TaskIds :
            ( /\ tasks[t].pc = "results_get" /\ tasks'[t] # tasks[t]
              /\ Unwrap(tasks[t].poll_id) \in DOMAIN polls )
            => /\ tasks'[t].poll = Some(polls[Unwrap(tasks[t].poll_id)])
               /\ IsTallyOf(Unwrap(tasks'[t].report).counts,
                            polls[Unwrap(tasks[t].poll_id)].responses)]_vars

\* a poll-results request holds the report of a record on which two users
\* voted the same option: that option counts 2 and no other option is there
C7_Witness ==
    \E t \in TaskIds :
      /\ tasks[t].name = "poll-results"
      /\ IsSome(tasks[t].report)
      /\ Cardinality({e[1] : e \in Unwrap(tasks[t].poll).responses}) = 2
      /\ \E o \in Options : Unwrap(tasks[t].report).counts = (o :> 2)

\* C8: a record is open when it is created, and no step turns the record
\* of an id from closed to open: after a closed record, the id shows a
\* closed record or none, and an open one again only once a new record
\* has been inserted into the vacant id
C8_OpenIsMonotonic ==
    [][/\ \A id \in DOMAIN polls :
            (~polls[id].open /\ id \in DOMAIN polls') => ~polls'[id].open
       /\ \A id \in DOMAIN polls' :
            id \notin DOMAIN polls =>
              /\ polls'[id].open
              /\ \E t \in TaskIds : /\ Moves(t, "new_entry", "reply")
                                    /\ Unwrap(tasks[t].poll_id) = id]_vars

\* two poll-close requests of the owner have both run their modify step
\* on one record, which is closed
C8_Witness ==
    \E t1, t2 \in TaskIds :
      /\ t1 # t2
      /\ tasks[t1].name = "poll-close" /\ tasks[t2].name = "poll-close"
      /\ tasks[t1].pc = "reply" /\ tasks[t2].pc = "reply"
      /\ tasks[t1].content = <<"Poll closed.">> /\ tasks[t2].content = <<"Poll closed.">>
      /\ tasks[t1].poll_id = tasks[t2].poll_id
      /\ Unwrap(tasks[t1].poll_id) \in DOMAIN polls
      /\ LET poll == polls[Unwrap(tasks[t1].poll_id)]
         IN  ~poll.open /\ poll.owner = tasks[t1].user

\* C9: a direct message is sent only by a poll-results request whose
\* requester is the owner in the snapshot it read, to that owner, with the
\* tally of that snapshot; a requester who is not that owner is told "Not
\* an owner of this poll." and an unknown id "No poll with that ID.",
\* both without a direct message
C9_ResultsOnlyToOwner ==
    /\ [](\A t \in TaskIds :
            /\ IsSome(tasks[t].dm) =>
                 /\ tasks[t].name = "poll-results"
                 /\ IsSome(tasks[t].poll)
                 /\ Unwrap(tasks[t].dm).to = tasks[t].user
                 /\ Unwrap(tasks[t].dm).to = Unwrap(tasks[t].poll).owner
                 /\ Unwrap(tasks[t].dm).report.poll_id = Unwrap(tasks[t].poll_id)
                 /\ IsTallyOf(Unwrap(tasks[t].dm).report.counts,
                              Unwrap(tasks[t].poll).responses)
            /\ (tasks[t].name = "poll-results" /\ tasks[t].pc = "reply") =>
                 /\ IsSome(tasks[t].dm) <=>
                      tasks[t].content = <<"Results sent by direct message.">>
                 /\ tasks[t].content = <<"No poll with that ID.">> <=>
                      ~IsSome(tasks[t].poll)
                 /\ tasks[t].content = <<"Not an owner of this poll.">> <=>
                      /\ IsSome(tasks[t].poll)
                      /\ Unwrap(tasks[t].poll).owner # tasks[t].user)
    /\ [][\A t \in TaskIds :
            ( /\ tasks[t].pc = "results_get" /\ tasks'[t] # tasks[t]
              /\ Unwrap(tasks[t].poll_id) \notin DOMAIN polls )
            => /\ tasks'[t].pc = "reply"
               /\ tasks'[t].content = <<"No poll with that ID.">>]_vars

\* the tally has gone to the requester, who owned the record it was read
\* from, while the id now has a record of another owner
C9_Witness ==
    \E t \in TaskIds :
      /\ tasks[t].name = "poll-results" /\ tasks[t].pc = "reply"
      /\ IsSome(tasks[t].dm)
      /\ Unwrap(tasks[t].dm).to = tasks[t].user
      /\ Unwrap(tasks[t].poll_id) \in DOMAIN polls
      /\ polls[Unwrap(tasks[t].poll_id)].owner # tasks[t].user

\* C10: for a poll id without the separator and any option, decoding the
\* custom id of the button built for them gives back the id and the option
C10_TokenRoundTrip ==
    (button.pc = "decoded" /\ ~Contains(button.id, ID_SEPARATOR))
    => button.decoded = Some(<<button.id, button.option>>)

\* a button whose id ends with the first half of the separator and whose
\* option holds the separator has been decoded to its id and option
C10_Witness ==
    /\ button.pc = "decoded"
    /\ button.id = SubSeq(ID_SEPARATOR, 1, 4)
    /\ Contains(button.option, ID_SEPARATOR)
    /\ button.option # ID_SEPARATOR
    /\ button.decoded = Some(<<button.id, button.option>>)

\* C11: a click whose custom id has no separator is reported as an error
\* and never panics: no task is ever in the panicked state, and the step
\* that handles such a click leaves the poll map unchanged
C11_MalformedTokenReported ==
    [][\A t \in TaskIds :
         (tasks[t].pc = "idle" /\ tasks'[t].name = "click"
            /\ tasks'[t].poll_id = None)
         => /\ tasks'[t].pc = "reply"
            /\ polls' = polls]_vars

\* the step delivers a command of name n to slot t
Dispatched(t, n) ==
    /\ events' = events + 1
    /\ Free(t)
    /\ tasks'[t].pc \notin {"idle", "panicked", "logged"}
    /\ tasks'[t].name = n

\* C12: the command counter is empty at the start; a step that dispatches
\* a command of name n makes the count of n one more than it was (1 when n
\* had no count), whatever the name and whatever the other handlers in
\* flight, and leaves the other counts as they were; no other step changes
\* the counter.  So each count equals the number of dispatches of its name
\* and never decreases.
C12_CounterCountsDispatches ==
    /\ counter = EmptyMap
    /\ [][ IF \E t \in TaskIds, n \in CommandNames : Dispatched(t, n)
           THEN \A t \in TaskIds, n \in CommandNames :
                  Dispatched(t, n) =>
                    /\ DOMAIN counter' = DOMAIN counter \cup {n}
                    /\ counter'[n] =
                         (IF n \in DOMAIN counter THEN counter[n] ELSE 0) + 1
                    /\ \A k \in DOMAIN counter \ {n} : counter'[k] = counter[k]
           ELSE counter' = counter ]_vars

\* two commands of an unrecognised name were dispatched and both handlers
\* are in flight, and one command of a recognised name was dispatched: the
\* counts are 2 and 1
C12_Witness ==
    /\ \E t1, t2 \in TaskIds :
         /\ t1 # t2
         /\ tasks[t1].name = "ping" /\ tasks[t2].name = "ping"
         /\ tasks[t1].pc = "reply" /\ tasks[t2].pc = "reply"
    /\ "ping" \in DOMAIN counter /\ counter["ping"] = 2
    /\ "poll-close" \in DOMAIN counter /\ counter["poll-close"] = 1

(* --------------------------------------------- specification with a log *)
\* the poll ids of the specification with a log
LogIds == {<<"p">>}

\* the custom ids its clicks carry: the buttons of its polls, and a token
\* without separator
LogCustomIds ==
    {create_poll_button(id, o) : id \in LogIds, o \in Options} \cup {<<"p">>}

\* a failed reply that undoes the insert of its poll-new: the record of
\* the id is removed again
RespondFailedRollback(t) ==
    /\ tasks[t].pc = "reply"
    /\ polls' = IF tasks[t].name = "poll-new"
                THEN [k \in DOMAIN polls \ {Unwrap(tasks[t].poll_id)} |-> polls[k]]
                ELSE polls
    /\ created_options' = [k \in DOMAIN polls' |-> created_options[k]]
    /\ tasks' = [tasks EXCEPT ![t] =
                   [Idle EXCEPT !.pc = "logged", !.name = tasks[t].name]]
    /\ UNCHANGED <<counter, events, button>>

\* create_interaction_response returns Err: the handler returns it, and
\* handle_application_command (line 390) or handle_message_component
\* (line 454) prints it; the task ends
RespondFailed(t) ==
    /\ tasks[t].pc = "reply"
    /\ tasks' = [tasks EXCEPT ![t] =
                   [Idle EXCEPT !.pc = "logged", !.name = tasks[t].name]]
    /\ UNCHANGED <<polls, counter, events, created_options, button>>

NextLog ==
    \/ \E t \in TaskIds, user \in Users, id \in LogIds, options \in OptionStrings :
         ApplicationCommand(t, "poll-new", user, id, options)
    \/ \E t \in TaskIds, user \in Users, id \in LogIds :
         \E command_name \in CommandNames \ {"poll-new", "ping"} :
           ApplicationCommand(t, command_name, user, id, <<>>)
    \/ \E t \in TaskIds, user \in Users :
         ApplicationCommand(t, "ping", user, <<>>, <<>>)
    \/ \E t \in TaskIds, user \in Users, custom_id \in LogCustomIds :
         \E message_content \in MessageContents :
           MessageComponent(t, user, custom_id, message_content)
    \/ \E t \in TaskIds : PollNewEntry(t)
    \/ \E t \in TaskIds : PollResultsGet(t)
    \/ \E t \in TaskIds : PollResultsCreateDm(t)
    \/ \E t \in TaskIds : PollResultsSend(t)
    \/ \E t \in TaskIds : PollCloseGet(t)
    \/ \E t \in TaskIds : PollCloseModify(t)
    \/ \E t \in TaskIds : PollDeleteGet(t)
    \/ \E t \in TaskIds : PollDeleteRemove(t)
    \/ \E t \in TaskIds : PollResponseModify(t)
    \/ \E t \in TaskIds : Respond(t)
    \/ \E t \in TaskIds : RespondFailed(t)

SpecLog == Init /\ [][NextLog]_vars

\* the names the match of handle_application_command has an arm for
Routed == {"poll-new", "poll-results", "poll-close", "poll-delete"}

\* C13: a dispatched command whose name has no arm in the match goes to
\* the default handler: its only step is the reply "Unimplmented command",
\* and neither the dispatch nor the reply, failed or not, changes a poll
\* record; a failed reply is logged and leaves the slot free, so that the
\* next event can be delivered to it
C13_DefaultHandler ==
    [][\A t \in TaskIds :
         /\ (\E n \in CommandNames \ Routed : Dispatched(t, n))
            => /\ tasks'[t].pc = "reply"
               /\ tasks'[t].content = <<"Unimplmented command">>
               /\ polls' = polls
         /\ ( /\ tasks[t].name \in CommandNames \ Routed
              /\ tasks[t].pc = "reply"
              /\ tasks'[t] # tasks[t] )
            => /\ polls' = polls
               /\ tasks'[t].pc \in {"idle", "logged"}
               /\ \A u \in TaskIds \ {t} : tasks'[u] = tasks[u]
         /\ (tasks[t].pc = "logged" /\ events < MaxEvents)
            => ENABLED ApplicationCommand(t, "ping", "u1", <<>>, <<>>)]_vars

\* the reply of a command of an unrecognised name failed and was logged
\* while a poll exists, and a second such command is about to reply
C13_Witness ==
    \E t1, t2 \in TaskIds :
      /\ tasks[t1].pc = "logged" /\ tasks[t1].name = "ping"
      /\ tasks[t2].pc = "reply" /\ tasks[t2].name = "ping"
      /\ tasks[t2].content = <<"Unimplmented command">>
      /\ <<"p">> \in DOMAIN polls
      /\ polls[<<"p">>].responses # {}

\* C14: the names ping, id and stats have handlers of their own: a command
\* of one of these names never gets the reply of the default handler, and
\* the reply to ping is "pong"
C14_PingIdStatsRouted ==
    \A t \in TaskIds :
      (tasks[t].pc = "reply" /\ tasks[t].name \in {"ping", "id", "stats"})
      => /\ tasks[t].content # <<"Unimplmented command">>
         /\ tasks[t].name = "ping" => tasks[t].content = <<"pong">>

\* C15: the remove step of a poll-delete replies "Poll deleted." exactly
\* when it removes a record; a remove step that finds no record under its
\* id replies "No poll with that ID.".  So of the deletes of a record that
\* is created once, at most one replies "Poll deleted.".
C15_DeleteLinearizable ==
    [][\A t \in TaskIds :
         Moves(t, "delete_remove", "reply") =>
           LET id == Unwrap(tasks[t].poll_id) IN
           IF id \in DOMAIN polls
           THEN tasks'[t].content = <<"Poll deleted.">>
           ELSE tasks'[t].content = <<"No poll with that ID.">>]_vars

\* C16: the modify step of a poll-close never creates a record; it replies
\* "Poll closed." only when, after it, the id has a record that is not
\* open; when the record is gone at the modify step it replies "No poll
\* with that ID."
C16_ClosedReplyMeansClosed ==
    [][\A t \in TaskIds :
         Moves(t, "close_modify", "reply") =>
           LET id == Unwrap(tasks[t].poll_id) IN
           /\ DOMAIN polls' = DOMAIN polls
           /\ tasks'[t].content = <<"Poll closed.">>
                => (id \in DOMAIN polls' /\ ~polls'[id].open)
           /\ id \notin DOMAIN polls
                => tasks'[t].content = <<"No poll with that ID.">>]_vars

\* C17: the modify step of a click whose decoded id has no record leaves
\* the poll map unchanged, returns no count and shows "?" as the number of
\* responses; as the id stays without record, a later poll-new on it
\* inserts a record without responses
C17_VoteOnMissingPoll ==
    [][\A t \in TaskIds :
         ( /\ Moves(t, "response_modify", "reply")
           /\ Unwrap(tasks[t].poll_id) \notin DOMAIN polls )
         => /\ polls' = polls
            /\ tasks'[t].count = None
            /\ LET c == tasks'[t].content
               IN  /\ Len(c) >= 2
                   /\ c[Len(c) - 1] = COUNT_LEADER
                   /\ c[Len(c)] = "?"]_vars

\* a click found no record under its id and is about to show "?", and a
\* poll-new on the same id has since inserted its record, without responses
C17_Witness ==
    \E t1, t2 \in TaskIds :
      /\ tasks[t1].name = "click" /\ tasks[t1].pc = "reply"
      /\ tasks[t1].count = None
      /\ tasks[t1].content = PollPrompt \o <<COUNT_LEADER, "?">>
      /\ tasks[t2].name = "poll-new" /\ tasks[t2].pc = "reply"
      /\ tasks[t2].content = format_prompt(PollPrompt, "0")
      /\ tasks[t2].poll_id = tasks[t1].poll_id
      /\ Unwrap(tasks[t1].poll_id) \in DOMAIN polls
      /\ polls[Unwrap(tasks[t1].poll_id)] = NewPoll(tasks[t2].user)

(* ------------------------------------- specifications with a posted button *)
\* the "options" arguments of the specifications with a button: one option
ButtonOptionStrings == {<<"A">>, <<"B">>}

\* create_interaction_response of handle_poll_new succeeds, lines 145-157:
\* the message with the prompt carries create_poll_row(poll_id,
\* poll_options), one button for each option.  One button of one message
\* is followed: its custom id is what a later click on it carries.
RespondPosting(t) ==
    /\ tasks[t].pc = "reply"
    /\ tasks[t].name = "poll-new"
    /\ tasks[t].content = format_prompt(PollPrompt, "0")
    /\ button.pc = "off"
    /\ \E i \in DOMAIN Unwrap(tasks[t].poll_options) :
         LET id == Unwrap(tasks[t].poll_id)
             option == Unwrap(tasks[t].poll_options)[i]
         IN  button' = [id |-> id, option |-> option,
                        custom_id |-> create_poll_button(id, option),
                        decoded |-> None, pc |-> "posted"]
    /\ tasks' = [tasks EXCEPT ![t] = Idle]
    /\ UNCHANGED <<polls, counter, events, created_options>>

\* a user clicks the posted button
ButtonClick(t, user) ==
    /\ button.pc = "posted"
    /\ MessageComponent(t, user, button.custom_id, format_prompt(PollPrompt, "0"))

\* the steps of the bot when the poll ids of the commands are ids and the
\* clicks are clicks on the posted button
ButtonsNext(ids) ==
    \/ \E t \in TaskIds, user \in Users, id \in ids, options \in ButtonOptionStrings :
         ApplicationCommand(t, "poll-new", user, id, options)
    \/ \E t \in TaskIds, user \in Users, id \in ids :
         \E command_name \in CommandNames \ {"poll-new", "ping"} :
           ApplicationCommand(t, command_name, user, id, <<>>)
    \/ \E t \in TaskIds, user \in Users :
         ApplicationCommand(t, "ping", user, <<>>, <<>>)
    \/ \E t \in TaskIds, user \in Users : ButtonClick(t, user)
    \/ \E t \in TaskIds : PollNewEntry(t)
    \/ \E t \in TaskIds : PollResultsGet(t)
    \/ \E t \in TaskIds : PollResultsCreateDm(t)
    \/ \E t \in TaskIds : PollResultsSend(t)
    \/ \E t \in TaskIds : PollCloseGet(t)
    \/ \E t \in TaskIds : PollCloseModify(t)
    \/ \E t \in TaskIds : PollDeleteGet(t)
    \/ \E t \in TaskIds : PollDeleteRemove(t)
    \/ \E t \in TaskIds : PollResponseModify(t)
    \/ \E t \in TaskIds : Respond(t)
    \/ \E t \in TaskIds : RespondPosting(t)

\* one poll id, used again after a delete
StaleIds == {<<"p">>}

NextStale == ButtonsNext(StaleIds)

SpecStale == Init /\ [][NextStale]_vars

\* the elements of a sequence
Range(seq) == {seq[i] : i \in DOMAIN seq}

\* C18: every value stored in the responses of a record is one of the
\* options the record was created with, also when the click is on a button
\* of an earlier record of the same id
C18_ResponsesAreOptions ==
    \A id \in DOMAIN polls :
      \A e \in polls[id].responses : e[2] \in Range(created_options[id])

\* two poll ids that handle_poll_new accepts: a plain one, and one that
\* contains the separator
ButtonIds == {<<"p">>, <<"p">> \o ID_SEPARATOR \o <<"A">>}

NextButtons == ButtonsNext(ButtonIds)

SpecButtons == Init /\ [][NextButtons]_vars

\* C19: the modify step of a click on the button that poll-new posted for
\* the id P and the option O, when P has an open record, stores O as the
\* response of the clicking user in the record of P and changes the record
\* of no other id
C19_ButtonTokensUnambiguous ==
    [][\A t \in TaskIds :
         ( /\ Moves(t, "response_modify", "reply")
           /\ button.pc = "posted"
           /\ button.id \in DOMAIN polls
           /\ polls[button.id].open )
         => /\ button.id \in DOMAIN polls'
            /\ <<tasks[t].user, button.option>> \in polls'[button.id].responses
            /\ \A k \in DOMAIN polls \ {button.id} :
                 k \in DOMAIN polls' /\ polls'[k] = polls[k]]_vars

\* C20: the modify step of a click changes at most the entry of the
\* clicking user in the responses of the record of the decoded id: the
\* ids with a record, the owner and the open flag of that record, the
\* entries of the other users in it and the records of the other ids are
\* as before; and no step changes the owner of an id that has a record
\* before and after it
C20_VoteFrame ==
    [][ /\ \A t \in TaskIds :
             Moves(t, "response_modify", "reply") =>
               LET id == Unwrap(tasks[t].poll_id) IN
               /\ DOMAIN polls' = DOMAIN polls
               /\ \A k \in DOMAIN polls \ {id} : polls'[k] = polls[k]
               /\ id \in DOMAIN polls =>
                    /\ polls'[id].owner = polls[id].owner
                    /\ polls'[id].open = polls[id].open
                    /\ {e \in polls'[id].responses : e[1] # tasks[t].user}
                         = {e \in polls[id].responses : e[1] # tasks[t].user}
        /\ \A id \in DOMAIN polls \cap DOMAIN polls' :
             polls'[id].owner = polls[id].owner ]_vars

\* a click stored the second response of a poll that already held the
\* response of the other user, while a poll of another id has a record
C20_Witness ==
    \E t \in TaskIds :
      /\ tasks[t].name = "click" /\ tasks[t].pc = "reply"
      /\ tasks[t].count = Some(2)
      /\ LET id == Unwrap(tasks[t].poll_id) IN
         /\ id \in DOMAIN polls
         /\ Voters(polls[id]) = Users
         /\ <<tasks[t].user, Unwrap(tasks[t].poll_option)>> \in polls[id].responses
         /\ \E k \in DOMAIN polls : k # id

\* C21: the step in which the reply of a handler fails changes no poll
\* record, no count and no other task: what the handler inserted, stored,
\* closed or removed before stays as it is.  The failure is logged and the
\* task ends: its slot changes again only when a new event is delivered to
\* it, so nothing is retried, and a new event can be delivered to it.  In
\* no record does a user have more than one response.
C21_FailedReplyKeepsMutation ==
    [][ /\ \A t \in TaskIds :
             /\ (tasks[t].pc = "reply" /\ tasks'[t].pc = "logged")
                => /\ polls' = polls
                   /\ counter' = counter
                   /\ tasks'[t].name = tasks[t].name
                   /\ \A u \in TaskIds \ {t} : tasks'[u] = tasks[u]
             /\ (tasks[t].pc = "logged" /\ tasks'[t] # tasks[t])
                => /\ events' = events + 1
                   /\ polls' = polls
             /\ (tasks[t].pc = "logged" /\ events < MaxEvents)
                => ENABLED MessageComponent(t, "u1", <<"p">>, format_prompt(PollPrompt, "0"))
        /\ \A id \in DOMAIN polls' : \A user \in Users :
             Cardinality({e \in polls'[id].responses : e[1] = user}) <= 1 ]_vars

\* the reply of a click and the reply of a poll-close both failed and were
\* logged: the vote that was stored is in the responses once and the poll
\* is closed
C21_Witness ==
    \E t1, t2 \in TaskIds :
      /\ tasks[t1].pc = "logged" /\ tasks[t1].name = "click"
      /\ tasks[t2].pc = "logged" /\ tasks[t2].name = "poll-close"
      /\ <<"p">> \in DOMAIN polls
      /\ ~polls[<<"p">>].open
      /\ Cardinality(polls[<<"p">>].responses) = 1

====
